---- MODULE Spec2Model ----
(***************************************************************************)
(* State-machine model of the WhatsApp gateway (src/index.js): the        *)
(* session lifecycle handlers (qr, authenticated, auth_failure, ready,    *)
(* disconnected), the typing/recording presence registry with its         *)
(* auto-clear timers, and the HTTP endpoints that send or show presence,  *)
(* with one media endpoint of the extended gateway (unnamed/part_002).    *)
(*                                                                         *)
(* JavaScript runs one callback at a time, so every action below is one   *)
(* run of a callback from its start (or from the await it resumed at) to  *)
(* its next await or its end.  Time is kept as the remaining delay of     *)
(* every setTimeout; Tick lets Quantum milliseconds pass.  A timer may     *)
(* fire only when its remaining delay is 0 (a timeout never fires before  *)
(* the delay Node.js gave it), and time does not pass while one is due.   *)
(***************************************************************************)
EXTENDS Integers, Sequences, FiniteSets, TLC

VARIABLES
    currentQRCode,            \* index.js:32   stored challenge, or NULL
    isAuthenticated,          \* index.js:33
    clientReady,              \* index.js:34
    authenticationAttempts,   \* index.js:35
    activeTypingStates,       \* index.js:39   chatId -> timeout id (NoTimer: no entry)
    typingTimers,             \* timeouts made by scheduleTypingClear (index.js:46)
    qrHandlers,               \* qr handlers suspended at `await qrcodeLib.toFile`
    resetTimers,              \* remaining delays of the timeouts of index.js:195
    reconnectTimers,          \* remaining delays of the timeouts of index.js:235
    requests,                 \* the API requests in flight, by slot
    running,                  \* FALSE once the process has ended
    sessionExists,            \* the SESSION_PATH directory exists
    authExhausted,            \* history: an auth_failure was handled at the limit
    out,                      \* what the last callback did (calls, response, log)
    call,                     \* a call of calculateTypingDuration: its arguments and result
    uploads,                  \* files in ./uploads (unnamed/part_002:102-108)
    forwarding                \* message handlers suspended at `await axios.post` (index.js:246)

vars == <<currentQRCode, isAuthenticated, clientReady, authenticationAttempts,
          activeTypingStates, typingTimers, qrHandlers, resetTimers,
          reconnectTimers, requests, running, sessionExists, authExhausted, out, call, uploads,
          forwarding>>

sessionVars == <<currentQRCode, isAuthenticated, clientReady, authenticationAttempts>>
presenceVars == <<activeTypingStates, typingTimers>>
processVars == <<running, sessionExists, authExhausted>>

----------------------------------------------------------------------------
(* Program constants *)

MAX_AUTH_ATTEMPTS == 5
RESET_DELAY == 5000
RECONNECT_DELAY == 10000
DEFAULT_TYPING_STATE_DURATION == 3000

(* Bounds of the model *)

AttemptCap == 6          \* challenges counted before the model stops issuing them
MaxQrHandlers == 2       \* qr handlers suspended at once
MaxRequests == 2         \* API requests in flight at once
MaxTimerIds == 2         \* timeout ids of scheduleTypingClear in use at once
MaxResetTimers == 1      \* reset timeouts pending at once
MaxReconnectTimers == 1  \* reconnect timeouts pending at once
MaxOverlappingReconnects == 2  \* reconnect timeouts pending at once, repeated disconnects
MaxTextLength == 160     \* longest text given to calculateTypingDuration
MaxUploads == 2          \* files in ./uploads at once
MaxForwarding == 2       \* message handlers suspended at once

Max(a, b) == IF a >= b THEN a ELSE b
Min(a, b) == IF a <= b THEN a ELSE b

RECURSIVE GCD(_, _)
GCD(a, b) == IF b = 0 THEN a ELSE GCD(b, a % b)

\* The step of the clock: the largest step that divides both fixed delays.
Quantum == GCD(RECONNECT_DELAY, RESET_DELAY)

NULL == "null"
QRCodes == {"qrA"}
Chats == {"c1", "c2"}
NoTimer == 0
TimerIds == 1..MaxTimerIds
Slots == 1..MaxRequests

----------------------------------------------------------------------------
(* calculateTypingDuration, index.js:60-108.  JavaScript computes it in    *)
(* floating point; here the value is kept exactly, in hundredths of a      *)
(* millisecond (every factor is a multiple of 0.1 and at most two are      *)
(* applied to a whole number of milliseconds).                             *)

Centi == 100

MessageTypes == {"normal", "search", "research", "quick_response", "confirmation",
                 "complex_analysis", "detailed_explanation", "error"}
Complexities == {"low", "medium", "high"}
Urgencies == {"normal", "high", "urgent", "low"}

\* A base duration that loses the floor's 1000 ms once the text passes it.
baseDurationBeyondFloor(len) == (IF len * 40 <= 1000 THEN 1000 ELSE len * 40 - 1000) * Centi

\* A base duration with no floor.
baseDurationNoFloor(len) == len * 40 * Centi

baseDuration(len) == Max(1000, len * 40) * Centi

afterMessageType(d, message_type) ==
    CASE message_type \in {"search", "research"} -> Max(2500 * Centi, d + 1500 * Centi)
      [] message_type \in {"quick_response", "confirmation"} -> Min(1200 * Centi, (d * 6) \div 10)
      [] message_type \in {"complex_analysis", "detailed_explanation"} -> Max(3500 * Centi, d + 2000 * Centi)
      [] message_type = "error" -> 800 * Centi
      [] OTHER -> d

afterComplexity(d, complexity) ==
    CASE complexity = "high" -> (d * 15) \div 10
      [] complexity = "medium" -> (d * 12) \div 10
      [] OTHER -> d

\* An urgency that changes nothing.
afterUrgencyIgnored(d, urgency) == d

afterUrgency(d, urgency) ==
    CASE urgency \in {"high", "urgent"} -> (d * 7) \div 10
      [] urgency = "low" -> (d * 13) \div 10
      [] OTHER -> d

\* A result that is not clamped.
clampNothing(d) == d

clampDuration(d) == Min(6000 * Centi, Max(800 * Centi, d))

\* The result in hundredths of a millisecond.
calculateTypingDurationCenti(len, message_type, complexity, urgency) ==
    clampDuration(afterUrgency(afterComplexity(
        afterMessageType(baseDuration(len), message_type), complexity), urgency))

\* The result in milliseconds (whole for the inputs the requests below use).
calculateTypingDuration(len, message_type, complexity, urgency) ==
    calculateTypingDurationCenti(len, message_type, complexity, urgency) \div Centi

\* index.js:64-68: a field the context does not have takes its default.
Absent == "absent"
defaulted(value, default) == IF value = Absent THEN default ELSE value

\* A value none of the switch statements has a case for.
Unrecognised == "other"

\* The arguments of a call: the length of the text and the fields of the context.
TextLengthInputs == 0..MaxTextLength
MessageTypeArguments == MessageTypes \cup {Absent, Unrecognised}
ComplexityArguments == Complexities \cup {Absent, Unrecognised}
UrgencyArguments == Urgencies \cup {Absent, Unrecognised}

\* The result of a call that has not returned.
NotReturned == -1

NoCall ==
    [text_length |-> 0, message_type |-> Absent, complexity |-> Absent,
     urgency |-> Absent, duration |-> NotReturned]

CallInputs ==
    [text_length : TextLengthInputs, message_type : MessageTypeArguments,
     complexity : ComplexityArguments, urgency : UrgencyArguments,
     duration : {NotReturned}]

\* index.js:350: the complexity send-message derives from the text length.
complexityOf(len) == IF len > 200 THEN "high" ELSE IF len > 100 THEN "medium" ELSE "low"

----------------------------------------------------------------------------
(* Records *)

\* What a callback did: the calls it issued, in order, on the connection, the
\* file system or the process, the HTTP response it sent (status 0: none), and
\* what it reported.
Out(status, calls) ==
    [status |-> status, calls |-> calls, escalation |-> FALSE,
     total_time |-> 0, typing_duration |-> 0, will_auto_clear |-> FALSE]

NoRequest ==
    [kind |-> "none", pc |-> "idle", chat |-> "none", dur |-> 0, delay |-> 0,
     wait |-> 0, elapsed |-> 0, reported |-> 0]

\* A delay as the clock sees it: the first multiple of Quantum that is not
\* before it (a timeout fires at the first step of the clock at or after its delay).
RoundUp(ms) == ((ms + Quantum - 1) \div Quantum) * Quantum

\* A number of milliseconds above TIMEOUT_MAX, the largest 32-bit signed
\* integer.  The integers of the model end at TIMEOUT_MAX too, so such a number
\* is written TooLong: it is positive, truthy and above every other duration.
TIMEOUT_MAX == (2^30 - 1) * 2 + 1
TooLong == -1

\* The delay a Node.js timeout really has (index.js:46, 359, 362): a delay below
\* 1 or above TIMEOUT_MAX (one that does not fit a 32-bit signed integer) is
\* set to 1.
setTimeoutDelay(ms) == IF ms # TooLong /\ ms >= 1 /\ ms <= TIMEOUT_MAX THEN ms ELSE 1

\* Date.now() - startTime is followed up to ElapsedCap: a request that has run
\* for ElapsedCap has run for ElapsedCap or longer.
ElapsedCap == 2 * Quantum

\* elapsed >= ms, as far as the elapsed time is followed.
Reached(elapsed, ms) ==
    \/ elapsed >= ElapsedCap
    \/ ms # TooLong /\ elapsed >= ms

PendingTimers == {t \in typingTimers : ~t.fired}
PendingFor(c) == {t \in PendingTimers : t.chatId = c}

\* Timeout ids neither held by a live timeout nor still stored in the registry
\* (a JavaScript Timeout object is never handed out twice).
FreeTimerIds ==
    TimerIds \ ({t.id : t \in typingTimers} \cup {activeTypingStates[c] : c \in Chats})
NewTimerId == CHOOSE i \in FreeTimerIds : \A j \in FreeTimerIds : i <= j

FreeSlots == {s \in Slots : requests[s].kind = "none"}
NewSlot == CHOOSE s \in FreeSlots : \A r \in FreeSlots : s <= r

----------------------------------------------------------------------------
(* The presence scheduler, index.js:41-58 *)

\* clearTimeout(id): a timeout that has not fired is removed; on one that has
\* fired, or on an id no timeout holds, it does nothing.
clearTimeout(timers, id) == {t \in timers : ~(t.id = id /\ ~t.fired)}

\* index.js:42-44
cancelPrevious(chatId) ==
    IF activeTypingStates[chatId] # NoTimer
    THEN clearTimeout(typingTimers, activeTypingStates[chatId])
    ELSE typingTimers

\* scheduleTypingClear(chatId, duration): the timeouts and the registry after it.
scheduleTypingClearTimers(chatId, duration) ==
    cancelPrevious(chatId) \cup
        {[id |-> NewTimerId, chatId |-> chatId,
          rem |-> RoundUp(setTimeoutDelay(duration)), fired |-> FALSE]}

scheduleTypingClearMap(chatId) == [activeTypingStates EXCEPT ![chatId] = NewTimerId]

\* index.js:46: the timeout fires; its callback awaits getChatById and clearState.
TypingTimerFire(t) ==
    /\ running
    /\ t \in typingTimers /\ ~t.fired /\ t.rem = 0
    /\ typingTimers' = (typingTimers \ {t}) \cup {[t EXCEPT !.fired = TRUE]}
    /\ out' = Out(0, <<"getChatById", "clearState">>)
    /\ UNCHANGED <<sessionVars, activeTypingStates, qrHandlers, resetTimers,
                   reconnectTimers, requests, processVars>>
    /\ UNCHANGED <<call, uploads, forwarding>>

\* index.js:50: after a successful clear the entry of the chat is deleted.
registryAfterClear(chatId) == [activeTypingStates EXCEPT ![chatId] = NoTimer]

\* A timer callback that does not catch the failure of the clear: the process
\* ends on it.
TypingClearDoneUncaught(t, ok) ==
    /\ running
    /\ t \in typingTimers /\ t.fired
    /\ typingTimers' = typingTimers \ {t}
    /\ activeTypingStates' = IF ok THEN registryAfterClear(t.chatId) ELSE activeTypingStates
    /\ running' = ok
    /\ out' = Out(0, <<>>)
    /\ UNCHANGED <<sessionVars, qrHandlers, resetTimers, reconnectTimers, requests,
                   sessionExists, authExhausted>>
    /\ UNCHANGED <<call, uploads, forwarding>>

\* index.js:48-54: the awaited clear returns (entry deleted) or throws (logged).
TypingClearDone(t, ok) ==
    /\ running
    /\ t \in typingTimers /\ t.fired
    /\ typingTimers' = typingTimers \ {t}
    /\ activeTypingStates' = IF ok THEN registryAfterClear(t.chatId) ELSE activeTypingStates
    /\ out' = Out(0, <<>>)
    /\ UNCHANGED <<sessionVars, qrHandlers, resetTimers, reconnectTimers, requests,
                   processVars>>
    /\ UNCHANGED <<call, uploads, forwarding>>

----------------------------------------------------------------------------
(* The session lifecycle handlers, index.js:131-238 *)

\* index.js:131-148: count the attempt, store the challenge, start writing the
\* QR image (the handler is suspended at the await of line 148).
Qr(qr) ==
    /\ running
    /\ authenticationAttempts < AttemptCap
    /\ Len(qrHandlers) < MaxQrHandlers
    /\ authenticationAttempts' = authenticationAttempts + 1
    /\ currentQRCode' = qr
    /\ qrHandlers' = Append(qrHandlers, authenticationAttempts + 1)
    /\ out' = Out(0, <<"toFile">>)
    /\ UNCHANGED <<isAuthenticated, clientReady, presenceVars, resetTimers,
                   reconnectTimers, requests, processVars>>
    /\ UNCHANGED <<call, uploads, forwarding>>

\* index.js:160
attemptsExhausted == authenticationAttempts >= MAX_AUTH_ATTEMPTS

\* index.js:149-166: the image write returned or threw; then the check of line 160.
QrDone(i, ok) ==
    /\ running
    /\ i \in DOMAIN qrHandlers
    /\ qrHandlers' = SubSeq(qrHandlers, 1, i - 1) \o SubSeq(qrHandlers, i + 1, Len(qrHandlers))
    /\ out' = [Out(0, <<>>) EXCEPT
                  !.escalation = attemptsExhausted]
    /\ UNCHANGED <<sessionVars, presenceVars, resetTimers, reconnectTimers, requests,
                   processVars>>
    /\ UNCHANGED <<call, uploads, forwarding>>

\* An authenticated handler that keeps the count of challenges.
AuthenticatedKeepsCount ==
    /\ running
    /\ isAuthenticated' = TRUE
    /\ currentQRCode' = NULL
    /\ out' = Out(0, <<>>)
    /\ UNCHANGED <<authenticationAttempts, clientReady, presenceVars, qrHandlers,
                   resetTimers, reconnectTimers, requests, processVars>>
    /\ UNCHANGED <<call, uploads, forwarding>>

\* index.js:173-185
Authenticated ==
    /\ running
    /\ isAuthenticated' = TRUE
    /\ authenticationAttempts' = 0
    /\ currentQRCode' = NULL
    /\ out' = Out(0, <<>>)
    /\ UNCHANGED <<clientReady, presenceVars, qrHandlers, resetTimers, reconnectTimers,
                   requests, processVars>>
    /\ UNCHANGED <<call, uploads, forwarding>>

\* A threshold the code does not use: one that is passed only above the maximum.
resetDueStrict == authenticationAttempts > MAX_AUTH_ATTEMPTS

\* index.js:193
resetDue == authenticationAttempts >= MAX_AUTH_ATTEMPTS

\* An auth_failure handler that starts the count of challenges again.
AuthFailureResetsCount ==
    /\ running
    /\ resetDue => Len(resetTimers) < MaxResetTimers
    /\ isAuthenticated' = FALSE
    /\ currentQRCode' = NULL
    /\ authenticationAttempts' = 0
    /\ resetTimers' = IF resetDue THEN Append(resetTimers, RESET_DELAY) ELSE resetTimers
    /\ authExhausted' = (authExhausted \/ authenticationAttempts >= MAX_AUTH_ATTEMPTS)
    /\ out' = Out(0, <<>>)
    /\ UNCHANGED <<clientReady, presenceVars, qrHandlers,
                   reconnectTimers, requests, running, sessionExists>>
    /\ UNCHANGED <<call, uploads, forwarding>>

\* index.js:187-203
AuthFailure ==
    /\ running
    /\ resetDue => Len(resetTimers) < MaxResetTimers
    /\ isAuthenticated' = FALSE
    /\ currentQRCode' = NULL
    /\ resetTimers' = IF resetDue THEN Append(resetTimers, RESET_DELAY) ELSE resetTimers
    /\ authExhausted' = (authExhausted \/ authenticationAttempts >= MAX_AUTH_ATTEMPTS)
    /\ out' = Out(0, <<>>)
    /\ UNCHANGED <<clientReady, authenticationAttempts, presenceVars, qrHandlers,
                   reconnectTimers, requests, running, sessionExists>>
    /\ UNCHANGED <<call, uploads, forwarding>>

\* index.js:195-201: the reset timeout fires: delete the session data, then exit.
ResetFire ==
    /\ running
    /\ resetTimers # <<>> /\ Head(resetTimers) = 0
    /\ resetTimers' = Tail(resetTimers)
    /\ sessionExists' = FALSE
    /\ running' = FALSE
    /\ out' = Out(0, IF sessionExists THEN <<"rmSync", "exit">> ELSE <<"exit">>)
    /\ UNCHANGED <<sessionVars, presenceVars, qrHandlers, reconnectTimers, requests,
                   authExhausted>>
    /\ UNCHANGED <<call, uploads, forwarding>>

\* index.js:219: activeTypingStates.clear() (no clearTimeout)
registryAfterReady == [c \in Chats |-> NoTimer]

\* A ready handler that counts the event.
ReadyCounting ==
    /\ running
    /\ clientReady' = TRUE
    /\ activeTypingStates' = registryAfterReady
    /\ authenticationAttempts' = Min(AttemptCap, authenticationAttempts + 1)
    /\ out' = Out(0, <<>>)
    /\ UNCHANGED <<currentQRCode, isAuthenticated, typingTimers,
                   qrHandlers, resetTimers, reconnectTimers, requests, processVars>>
    /\ UNCHANGED <<call, uploads, forwarding>>

\* index.js:205-220
Ready ==
    /\ running
    /\ clientReady' = TRUE
    /\ activeTypingStates' = registryAfterReady
    /\ out' = Out(0, <<>>)
    /\ UNCHANGED <<currentQRCode, isAuthenticated, authenticationAttempts, typingTimers,
                   qrHandlers, resetTimers, reconnectTimers, requests, processVars>>
    /\ UNCHANGED <<call, uploads, forwarding>>

\* index.js:228-230: clearTimeout on every timeout id stored in the registry.
timersAfterDisconnect ==
    {t \in typingTimers :
        ~(~t.fired /\ \E c \in Chats : activeTypingStates[c] = t.id)}

\* A disconnected handler that schedules no reconnect.
DisconnectedWithoutReconnect ==
    /\ running
    /\ Len(reconnectTimers) < MaxReconnectTimers
    /\ clientReady' = FALSE
    /\ isAuthenticated' = FALSE
    /\ typingTimers' = timersAfterDisconnect
    /\ activeTypingStates' = [c \in Chats |-> NoTimer]
    /\ out' = Out(0, <<>>)
    /\ UNCHANGED <<currentQRCode, authenticationAttempts, qrHandlers, resetTimers,
                   reconnectTimers, requests, processVars>>
    /\ UNCHANGED <<call, uploads, forwarding>>

\* index.js:222-238, with at most cap reconnect timeouts pending at once: the
\* handler itself never looks at the timeouts that are already pending.
DisconnectedWithin(cap) ==
    /\ running
    /\ Len(reconnectTimers) < cap
    /\ clientReady' = FALSE
    /\ isAuthenticated' = FALSE
    /\ typingTimers' = timersAfterDisconnect
    /\ activeTypingStates' = [c \in Chats |-> NoTimer]
    /\ reconnectTimers' = Append(reconnectTimers, RECONNECT_DELAY)
    /\ out' = Out(0, <<>>)
    /\ UNCHANGED <<currentQRCode, authenticationAttempts, qrHandlers, resetTimers,
                   requests, processVars>>
    /\ UNCHANGED <<call, uploads, forwarding>>

\* index.js:222-238
Disconnected == DisconnectedWithin(MaxReconnectTimers)

\* index.js:235-237: the reconnect timeout fires and calls client.initialize().
\* The promise it returns is dropped: when it is rejected (ok = FALSE) nothing
\* handles the rejection, and Node.js (version 20, unnamed/part_003:2) ends the
\* process on an unhandled rejection.  The outcome is taken with the step that
\* issues the call (nothing of the gateway reads or writes state in between).
ReconnectFire(ok) ==
    /\ running
    /\ reconnectTimers # <<>> /\ Head(reconnectTimers) = 0
    /\ reconnectTimers' = Tail(reconnectTimers)
    /\ running' = ok
    /\ out' = Out(0, IF ok THEN <<"initialize">> ELSE <<"initialize", "unhandledRejection">>)
    /\ UNCHANGED <<sessionVars, presenceVars, qrHandlers, resetTimers, requests,
                   sessionExists, authExhausted>>
    /\ UNCHANGED <<call, uploads, forwarding>>

\* index.js:511 (GET /health) and 531 (GET /status): activeTypingStates.size
active_typing_states == Cardinality({c \in Chats : activeTypingStates[c] # NoTimer})

----------------------------------------------------------------------------
(* The message handler, index.js:240-266 *)

STATUS_BROADCAST == "status@broadcast"

\* The sender of a message: the status broadcast or a conversation.
Senders == {STATUS_BROADCAST} \cup Chats

\* A filter that looks at the sender only.
forwardedIgnoringAuthor(from, author) == from # STATUS_BROADCAST

\* index.js:241: a message is forwarded unless it comes from the status
\* broadcast or has an author (author: message.author is set).
forwarded(from, author) == ~(from = STATUS_BROADCAST \/ author)

\* index.js:240-246: a message event: the handler returns at once, or starts
\* the POST to the webhook and is suspended at its await.
Message(from, author) ==
    /\ running
    /\ IF forwarded(from, author)
       THEN /\ forwarding < MaxForwarding
            /\ forwarding' = forwarding + 1
            /\ out' = Out(0, <<"post">>)
       ELSE /\ out' = Out(0, <<>>)
            /\ UNCHANGED forwarding
    /\ UNCHANGED <<sessionVars, presenceVars, qrHandlers, resetTimers, reconnectTimers,
                   requests, processVars, call, uploads>>

\* index.js:246-265: the POST returned (logged), or failed or timed out (the
\* catch logs the error); the handler ends.
WebhookDone(ok) ==
    /\ running
    /\ forwarding > 0
    /\ forwarding' = forwarding - 1
    /\ out' = Out(0, <<>>)
    /\ UNCHANGED <<sessionVars, presenceVars, qrHandlers, resetTimers, reconnectTimers,
                   requests, processVars, call, uploads>>

----------------------------------------------------------------------------
(* The HTTP endpoints, index.js:311-501 and 551-556.  A request that is     *)
(* answered in the callback that received it never occupies a slot.         *)

\* Inputs of the requests
TypingDurationInputs == {0, Quantum, TooLong}   \* typing_duration; 0: not given
MessageDelayInputs == {0, Quantum}                  \* message_delay
TextLengths == {10}                            \* length of a non-empty text
MessageTypeInputs == {"normal"}
UrgencyInputs == {"normal"}
DurationInputs == {0, Quantum}                      \* duration of send-typing
PresenceStates == {"typing", "recording"}

\* A gate the code does not use: one without the readiness check.
rejectionIgnoringReady(keyOk, fieldsOk) ==
    IF ~keyOk THEN 401
    ELSE IF ~fieldsOk THEN 400
    ELSE 0

\* index.js:313-341 (and 394-412, 451-462, 480-491): the checks every endpoint
\* makes before it acts, in order; 0 when the request passes them.
rejection(keyOk, fieldsOk) ==
    IF ~keyOk THEN 401
    ELSE IF ~clientReady THEN 503
    ELSE IF ~fieldsOk THEN 400
    ELSE 0

Reject(keyOk, fieldsOk) ==
    /\ rejection(keyOk, fieldsOk) # 0
    /\ out' = Out(rejection(keyOk, fieldsOk), <<>>)
    /\ UNCHANGED <<sessionVars, presenceVars, qrHandlers, resetTimers, reconnectTimers,
                   requests, processVars>>
    /\ UNCHANGED <<call, uploads, forwarding>>

Accept(keyOk, fieldsOk, req, calls) ==
    /\ rejection(keyOk, fieldsOk) = 0
    /\ FreeSlots # {}
    /\ requests' = [requests EXCEPT ![NewSlot] = req]
    /\ out' = Out(0, calls)
    /\ UNCHANGED <<sessionVars, presenceVars, qrHandlers, resetTimers, reconnectTimers,
                   processVars>>
    /\ UNCHANGED <<call, uploads, forwarding>>

\* index.js:347-351
calculatedDuration(typing_duration, len, message_type, urgency) ==
    IF typing_duration # 0 THEN typing_duration
    ELSE calculateTypingDuration(len, message_type, complexityOf(len), urgency)

\* index.js:376: the typing_duration the response reports
reportedDuration(enable_typing, typing_duration, len) ==
    IF ~enable_typing THEN 0
    ELSE IF typing_duration # 0 THEN typing_duration
    ELSE calculateTypingDuration(len, "normal", "low", "normal")

\* index.js:311-356 (typing) or 311-366 (no typing): POST /send-message
SendMessage(keyOk, fieldsOk, to, len, typing_duration, enable_typing, message_delay, message_type, urgency) ==
    /\ running
    /\ \/ Reject(keyOk, fieldsOk)
       \/ Accept(keyOk, fieldsOk,
                 [NoRequest EXCEPT
                    !.kind = "send-message",
                    !.pc = IF enable_typing THEN "signal" ELSE "sending",
                    !.chat = to,
                    !.dur = IF enable_typing
                            THEN calculatedDuration(typing_duration, len, message_type, urgency)
                            ELSE 0,
                    !.delay = IF enable_typing THEN message_delay ELSE 0,
                    !.reported = reportedDuration(enable_typing, typing_duration, len)],
                 IF enable_typing THEN <<"getChatById", "sendStateTyping">>
                 ELSE <<"sendMessage">>)

\* index.js:359: the delay the handler sleeps for after showing the presence
typingSleep(req) == req.dur

\* index.js:355-359: getChatById and sendStateTyping returned (schedule the clear,
\* start the sleep) or one of them threw (500).
SendMessageSignalled(s, ok) ==
    /\ running
    /\ requests[s].kind = "send-message" /\ requests[s].pc = "signal"
    /\ IF ok
       THEN /\ FreeTimerIds # {}
            /\ typingTimers' = scheduleTypingClearTimers(requests[s].chat, requests[s].dur)
            /\ activeTypingStates' = scheduleTypingClearMap(requests[s].chat)
            /\ requests' = [requests EXCEPT ![s].pc = "typing",
                                            ![s].wait =
                                               RoundUp(setTimeoutDelay(typingSleep(requests[s])))]
            /\ out' = Out(0, <<"scheduleTypingClear">>)
       ELSE /\ requests' = [requests EXCEPT ![s] = NoRequest]
            /\ out' = Out(500, <<>>)
            /\ UNCHANGED presenceVars
    /\ UNCHANGED <<sessionVars, qrHandlers, resetTimers, reconnectTimers, processVars>>
    /\ UNCHANGED <<call, uploads, forwarding>>

\* index.js:359-366: the typing sleep ended: sleep message_delay more, or send.
SendMessageSlept(s) ==
    /\ running
    /\ requests[s].kind = "send-message" /\ requests[s].pc = "typing"
    /\ requests[s].wait = 0
    /\ IF requests[s].delay > 0
       THEN /\ requests' = [requests EXCEPT ![s].pc = "delay",
                                            ![s].wait =
                                               RoundUp(setTimeoutDelay(requests[s].delay))]
            /\ out' = Out(0, <<>>)
       ELSE /\ requests' = [requests EXCEPT ![s].pc = "sending"]
            /\ out' = Out(0, <<"sendMessage">>)
    /\ UNCHANGED <<sessionVars, presenceVars, qrHandlers, resetTimers, reconnectTimers,
                   processVars>>
    /\ UNCHANGED <<call, uploads, forwarding>>

\* index.js:362-366: the message_delay sleep ended: send.
SendMessageDelayed(s) ==
    /\ running
    /\ requests[s].kind = "send-message" /\ requests[s].pc = "delay"
    /\ requests[s].wait = 0
    /\ requests' = [requests EXCEPT ![s].pc = "sending"]
    /\ out' = Out(0, <<"sendMessage">>)
    /\ UNCHANGED <<sessionVars, presenceVars, qrHandlers, resetTimers, reconnectTimers,
                   processVars>>
    /\ UNCHANGED <<call, uploads, forwarding>>

\* index.js:366-388: client.sendMessage returned (200 with the timing) or threw (500).
SendMessageSent(s, ok) ==
    /\ running
    /\ requests[s].kind = "send-message" /\ requests[s].pc = "sending"
    /\ requests' = [requests EXCEPT ![s] = NoRequest]
    /\ out' = IF ok
              THEN [Out(200, <<>>) EXCEPT
                       !.total_time = requests[s].elapsed,
                       !.typing_duration = requests[s].reported]
              ELSE Out(500, <<>>)
    /\ UNCHANGED <<sessionVars, presenceVars, qrHandlers, resetTimers, reconnectTimers,
                   processVars>>
    /\ UNCHANGED <<call, uploads, forwarding>>

\* index.js:405: `duration = 3000` when the body gives none
sendTypingDuration(given, duration) ==
    IF given THEN duration ELSE DEFAULT_TYPING_STATE_DURATION

\* index.js:417-423: the presence call of the requested state
presenceCall(state) == IF state = "recording" THEN "sendStateRecording" ELSE "sendStateTyping"

\* index.js:392-415: POST /send-typing
SendTyping(keyOk, fieldsOk, chatId, given, duration, state) ==
    /\ running
    /\ \/ Reject(keyOk, fieldsOk)
       \/ Accept(keyOk, fieldsOk,
                 [NoRequest EXCEPT !.kind = "send-typing", !.pc = "signal",
                                   !.chat = chatId,
                                   !.dur = sendTypingDuration(given, duration)],
                 <<"getChatById", presenceCall(state)>>)

\* index.js:551-556: POST /set-typing-status overwrites duration and state and
\* hands the request to the /send-typing route.
SetTypingStatus(keyOk, fieldsOk, chatId) ==
    /\ running
    /\ \/ Reject(keyOk, fieldsOk)
       \/ Accept(keyOk, fieldsOk,
                 [NoRequest EXCEPT !.kind = "send-typing", !.pc = "signal",
                                   !.chat = chatId,
                                   !.dur = DEFAULT_TYPING_STATE_DURATION],
                 <<"getChatById", presenceCall("typing")>>)

\* index.js:425
willAutoClear(duration) == duration = TooLong \/ duration > 0

\* A send-typing handler that schedules the clear before it signals the presence.
SendTypingSchedulesFirst(s, ok) ==
    /\ running
    /\ requests[s].kind = "send-typing" /\ requests[s].pc = "signal"
    /\ requests' = [requests EXCEPT ![s] = NoRequest]
    /\ IF willAutoClear(requests[s].dur)
       THEN /\ FreeTimerIds # {}
            /\ typingTimers' = scheduleTypingClearTimers(requests[s].chat, requests[s].dur)
            /\ activeTypingStates' = scheduleTypingClearMap(requests[s].chat)
       ELSE UNCHANGED presenceVars
    /\ out' = IF ok THEN Out(200, <<>>) ELSE Out(500, <<>>)
    /\ UNCHANGED <<sessionVars, qrHandlers, resetTimers, reconnectTimers, processVars>>
    /\ UNCHANGED <<call, uploads, forwarding>>

\* index.js:415-445: the presence calls returned (schedule the clear when the
\* duration is positive; 200) or one of them threw (500).
SendTypingSignalled(s, ok) ==
    /\ running
    /\ requests[s].kind = "send-typing" /\ requests[s].pc = "signal"
    /\ requests' = [requests EXCEPT ![s] = NoRequest]
    /\ IF ok /\ willAutoClear(requests[s].dur)
       THEN /\ FreeTimerIds # {}
            /\ typingTimers' = scheduleTypingClearTimers(requests[s].chat, requests[s].dur)
            /\ activeTypingStates' = scheduleTypingClearMap(requests[s].chat)
       ELSE UNCHANGED presenceVars
    /\ out' = IF ok
              THEN [Out(200,
                        IF willAutoClear(requests[s].dur)
                        THEN <<"scheduleTypingClear">> ELSE <<>>) EXCEPT
                       !.will_auto_clear = willAutoClear(requests[s].dur)]
              ELSE Out(500, <<>>)
    /\ UNCHANGED <<sessionVars, qrHandlers, resetTimers, reconnectTimers, processVars>>
    /\ UNCHANGED <<call, uploads, forwarding>>

\* index.js:449-465: POST /reply-to-message
ReplyToMessage(keyOk, fieldsOk) ==
    /\ running
    /\ \/ Reject(keyOk, fieldsOk)
       \/ Accept(keyOk, fieldsOk,
                 [NoRequest EXCEPT !.kind = "reply-to-message", !.pc = "lookup"],
                 <<"getMessageById">>)

\* index.js:465-475: getMessageById returned the message (reply to it), returned
\* nothing (404) or threw (500).
ReplyLookedUp(s, result) ==
    /\ running
    /\ requests[s].kind = "reply-to-message" /\ requests[s].pc = "lookup"
    /\ IF result = "found"
       THEN /\ requests' = [requests EXCEPT ![s].pc = "replying"]
            /\ out' = Out(0, <<"reply">>)
       ELSE /\ requests' = [requests EXCEPT ![s] = NoRequest]
            /\ out' = Out(IF result = "missing" THEN 404 ELSE 500, <<>>)
    /\ UNCHANGED <<sessionVars, presenceVars, qrHandlers, resetTimers, reconnectTimers,
                   processVars>>
    /\ UNCHANGED <<call, uploads, forwarding>>

\* index.js:467-475: the reply returned (200) or threw (500).
ReplySent(s, ok) ==
    /\ running
    /\ requests[s].kind = "reply-to-message" /\ requests[s].pc = "replying"
    /\ requests' = [requests EXCEPT ![s] = NoRequest]
    /\ out' = Out(IF ok THEN 200 ELSE 500, <<>>)
    /\ UNCHANGED <<sessionVars, presenceVars, qrHandlers, resetTimers, reconnectTimers,
                   processVars>>
    /\ UNCHANGED <<call, uploads, forwarding>>

\* index.js:478-494: POST /send-image
SendImage(keyOk, fieldsOk, to) ==
    /\ running
    /\ \/ Reject(keyOk, fieldsOk)
       \/ Accept(keyOk, fieldsOk,
                 [NoRequest EXCEPT !.kind = "send-image", !.pc = "fetch", !.chat = to],
                 <<"fromUrl">>)

\* index.js:494-500: MessageMedia.fromUrl returned (send the image) or threw (500).
SendImageFetched(s, ok) ==
    /\ running
    /\ requests[s].kind = "send-image" /\ requests[s].pc = "fetch"
    /\ IF ok
       THEN /\ requests' = [requests EXCEPT ![s].pc = "sending"]
            /\ out' = Out(0, <<"sendMessage">>)
       ELSE /\ requests' = [requests EXCEPT ![s] = NoRequest]
            /\ out' = Out(500, <<>>)
    /\ UNCHANGED <<sessionVars, presenceVars, qrHandlers, resetTimers, reconnectTimers,
                   processVars>>
    /\ UNCHANGED <<call, uploads, forwarding>>

\* index.js:495-500: client.sendMessage returned (200) or threw (500).
SendImageSent(s, ok) ==
    /\ running
    /\ requests[s].kind = "send-image" /\ requests[s].pc = "sending"
    /\ requests' = [requests EXCEPT ![s] = NoRequest]
    /\ out' = Out(IF ok THEN 200 ELSE 500, <<>>)
    /\ UNCHANGED <<sessionVars, presenceVars, qrHandlers, resetTimers, reconnectTimers,
                   processVars>>
    /\ UNCHANGED <<call, uploads, forwarding>>

----------------------------------------------------------------------------
(* The media endpoints of the extended gateway, unnamed/part_002:803-1265,  *)
(* by the first of them, POST /send-document, with the document given by    *)
(* its URL, and POST /upload-and-send, which receives the file itself.      *)

\* unnamed/part_002:820: the default of typing_duration
DOCUMENT_TYPING_DURATION == 3000

\* unnamed/part_002:803-838 (typing) or 803-865 (no typing)
SendDocument(keyOk, fieldsOk, to, enable_typing) ==
    /\ running
    /\ \/ Reject(keyOk, fieldsOk)
       \/ Accept(keyOk, fieldsOk,
                 [NoRequest EXCEPT
                    !.kind = "send-document",
                    !.pc = IF enable_typing THEN "signal" ELSE "fetch",
                    !.chat = to,
                    !.dur = IF enable_typing THEN DOCUMENT_TYPING_DURATION ELSE 0],
                 IF enable_typing THEN <<"getChatById", "sendStateTyping">>
                 ELSE <<"fromUrl">>)

\* unnamed/part_002:837-839: the presence was signalled (sleep) or a call threw
\* (500); no auto-clear is scheduled.
SendDocumentSignalled(s, ok) ==
    /\ running
    /\ requests[s].kind = "send-document" /\ requests[s].pc = "signal"
    /\ IF ok
       THEN /\ requests' = [requests EXCEPT ![s].pc = "typing",
                                            ![s].wait =
                                               RoundUp(setTimeoutDelay(requests[s].dur))]
            /\ out' = Out(0, <<>>)
       ELSE /\ requests' = [requests EXCEPT ![s] = NoRequest]
            /\ out' = Out(500, <<>>)
    /\ UNCHANGED <<sessionVars, presenceVars, qrHandlers, resetTimers, reconnectTimers,
                   processVars>>
    /\ UNCHANGED <<call, uploads, forwarding>>

\* unnamed/part_002:839-868: the sleep ended: fetch the document.
SendDocumentSlept(s) ==
    /\ running
    /\ requests[s].kind = "send-document" /\ requests[s].pc = "typing"
    /\ requests[s].wait = 0
    /\ requests' = [requests EXCEPT ![s].pc = "fetch"]
    /\ out' = Out(0, <<"fromUrl">>)
    /\ UNCHANGED <<sessionVars, presenceVars, qrHandlers, resetTimers, reconnectTimers,
                   processVars>>
    /\ UNCHANGED <<call, uploads, forwarding>>

\* unnamed/part_002:865-875: MessageMedia.fromUrl returned (send) or threw (500).
SendDocumentFetched(s, ok) ==
    /\ running
    /\ requests[s].kind = "send-document" /\ requests[s].pc = "fetch"
    /\ IF ok
       THEN /\ requests' = [requests EXCEPT ![s].pc = "sending"]
            /\ out' = Out(0, <<"sendMessage">>)
       ELSE /\ requests' = [requests EXCEPT ![s] = NoRequest]
            /\ out' = Out(500, <<>>)
    /\ UNCHANGED <<sessionVars, presenceVars, qrHandlers, resetTimers, reconnectTimers,
                   processVars>>
    /\ UNCHANGED <<call, uploads, forwarding>>

\* unnamed/part_002:872-896: client.sendMessage returned (200) or threw (500).
SendDocumentSent(s, ok) ==
    /\ running
    /\ requests[s].kind = "send-document" /\ requests[s].pc = "sending"
    /\ requests' = [requests EXCEPT ![s] = NoRequest]
    /\ out' = Out(IF ok THEN 200 ELSE 500, <<>>)
    /\ UNCHANGED <<sessionVars, presenceVars, qrHandlers, resetTimers, reconnectTimers,
                   processVars>>
    /\ UNCHANGED <<call, uploads, forwarding>>

\* unnamed/part_002:1106: the presence delay of /upload-and-send
UPLOAD_TYPING_DURATION == 2000

\* What the request carries as its file: none, one of a type the fileFilter
\* allows, or one of a type it refuses (unnamed/part_002:119-139).
UploadFiles == {"none", "accepted", "unsupported"}

\* unnamed/part_002:1072-1104: POST /upload-and-send.  upload.single('file')
\* runs before the handler: it refuses an unsupported file (the error ends the
\* request in the default error handler, 500) or writes an accepted one to
\* ./uploads; then the handler checks the key, the readiness and the fields
\* (`to` and the file), and signals the presence.
UploadAndSend(keyOk, toOk, file) ==
    /\ running
    /\ file = "accepted" => uploads < MaxUploads
    /\ IF file = "unsupported"
       THEN /\ out' = Out(500, <<>>)
            /\ UNCHANGED <<requests, uploads>>
       ELSE /\ uploads' = IF file = "accepted" THEN uploads + 1 ELSE uploads
            /\ IF rejection(keyOk, toOk /\ file = "accepted") # 0
               THEN /\ out' = Out(rejection(keyOk, toOk /\ file = "accepted"), <<>>)
                    /\ UNCHANGED requests
               ELSE /\ FreeSlots # {}
                    /\ requests' = [requests EXCEPT ![NewSlot] =
                                       [NoRequest EXCEPT !.kind = "upload-and-send",
                                                         !.pc = "signal", !.chat = "c1"]]
                    /\ out' = Out(0, <<"getChatById", "sendStateTyping">>)
    /\ UNCHANGED <<sessionVars, presenceVars, qrHandlers, resetTimers, reconnectTimers,
                   processVars, call, forwarding>>

\* unnamed/part_002:1099-1106: the presence is signalled (sleep) or the lookup or
\* the signal threw (the catch of 1139-1153 deletes the file and answers 500).
UploadSignalled(s, ok) ==
    /\ running
    /\ requests[s].kind = "upload-and-send" /\ requests[s].pc = "signal"
    /\ IF ok
       THEN /\ requests' = [requests EXCEPT ![s].pc = "typing",
                                            ![s].wait = RoundUp(UPLOAD_TYPING_DURATION)]
            /\ out' = Out(0, <<>>)
            /\ UNCHANGED uploads
       ELSE /\ requests' = [requests EXCEPT ![s] = NoRequest]
            /\ out' = Out(500, <<"unlink">>)
            /\ uploads' = uploads - 1
    /\ UNCHANGED <<sessionVars, presenceVars, qrHandlers, resetTimers, reconnectTimers,
                   processVars, call, forwarding>>

\* unnamed/part_002:1106-1118: the sleep ended: read the file and send it, or
\* MessageMedia.fromFilePath threw.
UploadSlept(s, ok) ==
    /\ running
    /\ requests[s].kind = "upload-and-send" /\ requests[s].pc = "typing"
    /\ requests[s].wait = 0
    /\ IF ok
       THEN /\ requests' = [requests EXCEPT ![s].pc = "sending"]
            /\ out' = Out(0, <<"sendMessage">>)
            /\ UNCHANGED uploads
       ELSE /\ requests' = [requests EXCEPT ![s] = NoRequest]
            /\ out' = Out(500, <<"unlink">>)
            /\ uploads' = uploads - 1
    /\ UNCHANGED <<sessionVars, presenceVars, qrHandlers, resetTimers, reconnectTimers,
                   processVars, call, forwarding>>

\* unnamed/part_002:1118-1153: client.sendMessage returned (200) or threw (500);
\* the file is deleted either way.
UploadSent(s, ok) ==
    /\ running
    /\ requests[s].kind = "upload-and-send" /\ requests[s].pc = "sending"
    /\ requests' = [requests EXCEPT ![s] = NoRequest]
    /\ out' = Out(IF ok THEN 200 ELSE 500, <<"unlink">>)
    /\ uploads' = uploads - 1
    /\ UNCHANGED <<sessionVars, presenceVars, qrHandlers, resetTimers, reconnectTimers,
                   processVars, call, forwarding>>

----------------------------------------------------------------------------
(* Time *)

Sleeping(req) == req.pc \in {"typing", "delay"}

\* No timeout is due: every pending one has some delay left.
NothingDue ==
    /\ \A t \in PendingTimers : t.rem > 0
    /\ \A s \in Slots : Sleeping(requests[s]) => requests[s].wait > 0
    /\ \A i \in DOMAIN resetTimers : resetTimers[i] > 0
    /\ \A i \in DOMAIN reconnectTimers : reconnectTimers[i] > 0

Elapse(ms) == Max(0, ms - Quantum)

\* Quantum milliseconds pass: every pending timeout and sleep comes that much
\* closer, and the time since each send-message request started grows.
Tick ==
    /\ running
    /\ NothingDue
    /\ typingTimers' =
          {IF t.fired THEN t ELSE [t EXCEPT !.rem = Elapse(t.rem)] : t \in typingTimers}
    /\ requests' =
          [s \in Slots |->
             [requests[s] EXCEPT
                 !.wait = Elapse(requests[s].wait),
                 !.elapsed = IF requests[s].kind = "send-message"
                             THEN Min(ElapsedCap, requests[s].elapsed + Quantum)
                             ELSE requests[s].elapsed]]
    /\ resetTimers' = [i \in DOMAIN resetTimers |-> Elapse(resetTimers[i])]
    /\ reconnectTimers' = [i \in DOMAIN reconnectTimers |-> Elapse(reconnectTimers[i])]
    /\ <<typingTimers', requests', resetTimers', reconnectTimers'>> #
          <<typingTimers, requests, resetTimers, reconnectTimers>>
    /\ out' = Out(0, <<>>)
    /\ UNCHANGED <<sessionVars, activeTypingStates, qrHandlers, processVars>>
    /\ UNCHANGED <<call, uploads, forwarding>>

----------------------------------------------------------------------------
(* The system *)

\* index.js:32-39 and 268-270: the state when client.initialize() has been called.
Init ==
    /\ currentQRCode = NULL
    /\ isAuthenticated = FALSE
    /\ clientReady = FALSE
    /\ authenticationAttempts = 0
    /\ activeTypingStates = [c \in Chats |-> NoTimer]
    /\ typingTimers = {}
    /\ qrHandlers = <<>>
    /\ resetTimers = <<>>
    /\ reconnectTimers = <<>>
    /\ requests = [s \in Slots |-> NoRequest]
    /\ running = TRUE
    /\ sessionExists = TRUE
    /\ authExhausted = FALSE
    /\ out = Out(0, <<"initialize">>)
    /\ call = NoCall
    /\ uploads = 0
    /\ forwarding = 0

SessionEvent ==
    \/ \E qr \in QRCodes : Qr(qr)
    \/ \E i \in 1..MaxQrHandlers, ok \in BOOLEAN : QrDone(i, ok)
    \/ Authenticated
    \/ AuthFailure
    \/ Ready
    \/ Disconnected

HostTimer ==
    \/ ResetFire
    \/ \E ok \in BOOLEAN : ReconnectFire(ok)

PresenceTimer ==
    \/ \E t \in typingTimers : TypingTimerFire(t)
    \/ \E t \in typingTimers, ok \in BOOLEAN : TypingClearDone(t, ok)

\* The requests that can arrive for the conversations `targets`, with a right
\* (keyOk) or a wrong x-api-key header.
RequestWith(keyOk, targets) ==
    \/ \E fieldsOk, enable_typing \in BOOLEAN, to \in targets, len \in TextLengths,
          typing_duration \in TypingDurationInputs, message_delay \in MessageDelayInputs,
          message_type \in MessageTypeInputs, urgency \in UrgencyInputs :
          SendMessage(keyOk, fieldsOk, to, len, typing_duration, enable_typing,
                      message_delay, message_type, urgency)
    \/ \E fieldsOk, given \in BOOLEAN, chatId \in targets,
          duration \in DurationInputs, state \in PresenceStates :
          SendTyping(keyOk, fieldsOk, chatId, given, duration, state)
    \/ \E fieldsOk \in BOOLEAN, chatId \in targets :
          SetTypingStatus(keyOk, fieldsOk, chatId)
    \/ \E fieldsOk \in BOOLEAN : ReplyToMessage(keyOk, fieldsOk)
    \/ \E fieldsOk \in BOOLEAN, to \in targets : SendImage(keyOk, fieldsOk, to)
    \/ \E fieldsOk, enable_typing \in BOOLEAN, to \in targets :
          SendDocument(keyOk, fieldsOk, to, enable_typing)

Request(targets) == \E keyOk \in BOOLEAN : RequestWith(keyOk, targets)

Continuation ==
    \/ \E s \in Slots, ok \in BOOLEAN : SendMessageSignalled(s, ok)
    \/ \E s \in Slots : SendMessageSlept(s)
    \/ \E s \in Slots : SendMessageDelayed(s)
    \/ \E s \in Slots, ok \in BOOLEAN : SendMessageSent(s, ok)
    \/ \E s \in Slots, ok \in BOOLEAN : SendTypingSignalled(s, ok)
    \/ \E s \in Slots, result \in {"found", "missing", "error"} : ReplyLookedUp(s, result)
    \/ \E s \in Slots, ok \in BOOLEAN : ReplySent(s, ok)
    \/ \E s \in Slots, ok \in BOOLEAN : SendImageFetched(s, ok)
    \/ \E s \in Slots, ok \in BOOLEAN : SendImageSent(s, ok)
    \/ \E s \in Slots, ok \in BOOLEAN : SendDocumentSignalled(s, ok)
    \/ \E s \in Slots : SendDocumentSlept(s)
    \/ \E s \in Slots, ok \in BOOLEAN : SendDocumentFetched(s, ok)
    \/ \E s \in Slots, ok \in BOOLEAN : SendDocumentSent(s, ok)

Idle == \A s \in Slots : requests[s].kind = "none"

(* Spec: the gateway.  Every endpoint, the presence scheduler and its timers,  *)
(* and the ready and disconnected events, which the endpoints and the          *)
(* scheduler read or are written by, for one conversation, with the requests   *)
(* arriving one after the other (a request arrives when none is in flight).    *)
(* Authentication, the challenge counter and the reset belong to SpecSession.  *)
Next ==
    \/ Ready
    \/ Disconnected
    \/ \E ok \in BOOLEAN : ReconnectFire(ok)
    \/ PresenceTimer
    \/ Idle /\ Request({"c1"})
    \/ Continuation
    \/ Tick

Spec == Init /\ [][Next]_vars

(* SpecRequests: Spec in which the event loop runs: time passes, a due timeout *)
(* fires, and every call a handler awaits on the connection returns or throws. *)
RequestFairness ==
    /\ WF_vars(Tick)
    /\ WF_vars(Continuation)
    /\ WF_vars(PresenceTimer)
    /\ WF_vars(\E ok \in BOOLEAN : ReconnectFire(ok))

SpecRequests == Init /\ [][Next]_vars /\ RequestFairness

(* SpecSession: the session lifecycle controller alone: every session event,   *)
(* the reset and reconnect timeouts, and time.                                 *)
NextSession ==
    \/ SessionEvent
    \/ HostTimer
    \/ Tick

SpecSession == Init /\ [][NextSession]_vars

(* SpecReset: authentication and the reset: the challenges, the authenticated, *)
(* auth_failure and ready events, the reset timeout and time.  A timeout fires *)
(* when it is due and time passes (the event loop runs while the process does).*)
NextReset ==
    \/ \E qr \in QRCodes : Qr(qr)
    \/ \E i \in 1..MaxQrHandlers, ok \in BOOLEAN : QrDone(i, ok)
    \/ Authenticated
    \/ AuthFailure
    \/ Ready
    \/ ResetFire
    \/ Tick

ResetFairness ==
    /\ WF_vars(Tick)
    /\ WF_vars(ResetFire)

SpecReset == Init /\ [][NextReset]_vars /\ ResetFairness

(* SpecChallenges: SpecSession in which no authenticated event occurs.         *)
NextChallenges ==
    \/ \E qr \in QRCodes : Qr(qr)
    \/ \E i \in 1..MaxQrHandlers, ok \in BOOLEAN : QrDone(i, ok)
    \/ AuthFailure
    \/ Ready
    \/ Disconnected
    \/ HostTimer
    \/ Tick

SpecChallenges == Init /\ [][NextChallenges]_vars

(* SpecRetry: SpecChallenges in which time passes, due timeouts fire and the   *)
(* connection keeps failing: auth_failure and disconnected events keep         *)
(* arriving.                                                                   *)
RetryFairness ==
    /\ WF_vars(Tick)
    /\ WF_vars(ResetFire)
    /\ WF_vars(\E ok \in BOOLEAN : ReconnectFire(ok))
    /\ WF_vars(AuthFailure)
    /\ WF_vars(Disconnected)

SpecRetry == Init /\ [][NextChallenges]_vars /\ RetryFairness

(* SpecReconnect: SpecSession in which time passes and a due timeout fires     *)
(* (the event loop runs while the process does).                               *)
ReconnectFairness ==
    /\ WF_vars(Tick)
    /\ WF_vars(ResetFire)
    /\ WF_vars(\E ok \in BOOLEAN : ReconnectFire(ok))

SpecReconnect == Init /\ [][NextSession]_vars /\ ReconnectFairness

(* SpecOverlap: a send-message request with typing overlapped by send-typing   *)
(* requests for the same conversation (one request of each endpoint in flight  *)
(* at a time), with ready and disconnected events.                             *)
InFlight(kind) == \E s \in Slots : requests[s].kind = kind

OverlapRequest ==
    \/ /\ ~InFlight("send-message")
       /\ \E keyOk, fieldsOk \in BOOLEAN, typing_duration \in {Quantum, TooLong} :
             SendMessage(keyOk, fieldsOk, "c1", 10, typing_duration, TRUE, 0,
                         "normal", "normal")
    \/ /\ ~InFlight("send-typing")
       /\ \E keyOk, fieldsOk \in BOOLEAN :
             SendTyping(keyOk, fieldsOk, "c1", TRUE, Quantum, "typing")

OverlapContinuation ==
    \/ \E s \in Slots, ok \in BOOLEAN : SendMessageSignalled(s, ok)
    \/ \E s \in Slots : SendMessageSlept(s)
    \/ \E s \in Slots, ok \in BOOLEAN : SendMessageSent(s, ok)
    \/ \E s \in Slots, ok \in BOOLEAN : SendTypingSignalled(s, ok)

NextOverlap ==
    \/ Ready
    \/ Disconnected
    \/ \E ok \in BOOLEAN : ReconnectFire(ok)
    \/ PresenceTimer
    \/ OverlapRequest
    \/ OverlapContinuation
    \/ Tick

SpecOverlap == Init /\ [][NextOverlap]_vars

(* SpecScheduler: the presence scheduler once the session is ready, with no    *)
(* session event afterwards: send-typing requests one after the other, the     *)
(* timers and time.                                                            *)
InitReady ==
    /\ currentQRCode = NULL
    /\ isAuthenticated = TRUE
    /\ clientReady = TRUE
    /\ authenticationAttempts = 0
    /\ activeTypingStates = [c \in Chats |-> NoTimer]
    /\ typingTimers = {}
    /\ qrHandlers = <<>>
    /\ resetTimers = <<>>
    /\ reconnectTimers = <<>>
    /\ requests = [s \in Slots |-> NoRequest]
    /\ running = TRUE
    /\ sessionExists = TRUE
    /\ authExhausted = FALSE
    /\ out = Out(0, <<>>)
    /\ call = NoCall
    /\ uploads = 0
    /\ forwarding = 0

NextScheduler ==
    \/ PresenceTimer
    \/ Idle /\ \E keyOk, fieldsOk, given \in BOOLEAN, chatId \in Chats,
                  duration \in DurationInputs \cup {2 * Quantum}, state \in PresenceStates :
                  SendTyping(keyOk, fieldsOk, chatId, given, duration, state)
    \/ \E s \in Slots, ok \in BOOLEAN : SendTypingSignalled(s, ok)
    \/ Tick

SpecScheduler == InitReady /\ [][NextScheduler]_vars

(* SpecDelays: send-message requests, one after the other, once the session   *)
(* is ready: with and without typing, with a typing_duration and a             *)
(* message_delay that are absent (0), short or long, and the timers and time.  *)
NextDelays ==
    \/ Ready
    \/ PresenceTimer
    \/ Idle /\ \E keyOk, fieldsOk, enable_typing \in BOOLEAN,
                  typing_duration \in {0, 100, 2 * Quantum},
                  message_delay \in {0, 100, 2 * Quantum} :
                  SendMessage(keyOk, fieldsOk, "c1", 10, typing_duration, enable_typing,
                              message_delay, "normal", "normal")
    \/ \E s \in Slots, ok \in BOOLEAN : SendMessageSignalled(s, ok)
    \/ \E s \in Slots : SendMessageSlept(s)
    \/ \E s \in Slots : SendMessageDelayed(s)
    \/ \E s \in Slots, ok \in BOOLEAN : SendMessageSent(s, ok)
    \/ Tick

SpecDelays == Init /\ [][NextDelays]_vars

(* SpecWebhook: inbound messages and their forwarding to the webhook, in every *)
(* session state and with presence timers pending: the authenticated, ready    *)
(* and disconnected events, the reconnect timeout, send-typing requests one    *)
(* after the other, the presence timers and time.                              *)
NextWebhook ==
    \/ \E from \in Senders, author \in BOOLEAN : Message(from, author)
    \/ \E ok \in BOOLEAN : WebhookDone(ok)
    \/ Authenticated
    \/ Ready
    \/ Disconnected
    \/ \E ok \in BOOLEAN : ReconnectFire(ok)
    \/ Idle /\ \E keyOk, fieldsOk \in BOOLEAN :
                  SendTyping(keyOk, fieldsOk, "c1", TRUE, Quantum, "typing")
    \/ \E s \in Slots, ok \in BOOLEAN : SendTypingSignalled(s, ok)
    \/ PresenceTimer
    \/ Tick

SpecWebhook == Init /\ [][NextWebhook]_vars

(* SpecUpload: /upload-and-send requests, one after the other, with the ready  *)
(* and disconnected events, the reconnect timeout and time.                    *)
NextUpload ==
    \/ Ready
    \/ Disconnected
    \/ \E ok \in BOOLEAN : ReconnectFire(ok)
    \/ Idle /\ \E keyOk, toOk \in BOOLEAN, file \in UploadFiles :
                  UploadAndSend(keyOk, toOk, file)
    \/ \E s \in Slots, ok \in BOOLEAN : UploadSignalled(s, ok)
    \/ \E s \in Slots, ok \in BOOLEAN : UploadSlept(s, ok)
    \/ \E s \in Slots, ok \in BOOLEAN : UploadSent(s, ok)
    \/ Tick

SpecUpload == Init /\ [][NextUpload]_vars

(* SpecConcurrent: send-message requests with typing for one conversation,    *)
(* up to MaxRequests of them in flight at once, once the session is ready;     *)
(* every call on the connection a request makes returns.                       *)
NextConcurrent ==
    \/ \E typing_duration \in {Quantum, 2 * Quantum} :
          SendMessage(TRUE, TRUE, "c1", 10, typing_duration, TRUE, 0, "normal", "normal")
    \/ \E s \in Slots : SendMessageSignalled(s, TRUE)
    \/ \E s \in Slots : SendMessageSlept(s)
    \/ \E s \in Slots : SendMessageSent(s, TRUE)
    \/ PresenceTimer
    \/ Tick

SpecConcurrent == InitReady /\ [][NextConcurrent]_vars

(* SpecDuration: calculateTypingDuration applied to a text of every length up  *)
(* to MaxTextLength and to every context: each field absent, one of the values *)
(* the function has a case for, or another value.                              *)
InitDuration ==
    /\ currentQRCode = NULL
    /\ isAuthenticated = FALSE
    /\ clientReady = FALSE
    /\ authenticationAttempts = 0
    /\ activeTypingStates = [c \in Chats |-> NoTimer]
    /\ typingTimers = {}
    /\ qrHandlers = <<>>
    /\ resetTimers = <<>>
    /\ reconnectTimers = <<>>
    /\ requests = [s \in Slots |-> NoRequest]
    /\ running = TRUE
    /\ sessionExists = TRUE
    /\ authExhausted = FALSE
    /\ out = Out(0, <<"initialize">>)
    /\ call \in CallInputs
    /\ uploads = 0
    /\ forwarding = 0

\* index.js:60-108: the call returns.
CalculateTypingDuration ==
    /\ call.duration = NotReturned
    /\ call' = [call EXCEPT !.duration =
                   calculateTypingDurationCenti(call.text_length,
                                                defaulted(call.message_type, "normal"),
                                                defaulted(call.complexity, "low"),
                                                defaulted(call.urgency, "normal"))]
    /\ UNCHANGED <<currentQRCode, isAuthenticated, clientReady, authenticationAttempts,
                   activeTypingStates, typingTimers, qrHandlers, resetTimers,
                   reconnectTimers, requests, running, sessionExists, authExhausted, out,
                   uploads, forwarding>>

NextDuration == CalculateTypingDuration

SpecDuration == InitDuration /\ [][NextDuration]_vars

----------------------------------------------------------------------------
(* Claims *)

\* A callback issued an underlying send (client.sendMessage or message.reply).
SendIssued == \E i \in DOMAIN out.calls : out.calls[i] \in {"sendMessage", "reply"}

\* C1: in every reachable state every conversation has at most one auto-clear
\* timer that has neither fired nor been cancelled.
C1_AtMostOnePendingTimer == \A c \in Chats : Cardinality(PendingFor(c)) <= 1

\* C2: in every reachable state, ready implies authenticated.
C2_ReadyImpliesAuthenticated == clientReady => isAuthenticated

\* C3: when a disconnected event has been handled no auto-clear timer is
\* pending, so that none scheduled before it can fire afterwards.
C3_DisconnectLeavesNoTimer == [][Disconnected => PendingTimers' = {}]_vars

C5_SendOnlyWhenReady == SendIssued => clientReady

\* C6: a send-message request that shows typing for an explicit D ms issues its
\* send no earlier than D ms after it started, and the total_time of its
\* response is at least the typing_duration it reports, also when another
\* request superseded its auto-clear timer or a disconnect cancelled it.
C6_SendAfterTypingDuration ==
    /\ \A s \in Slots :
          (requests[s].kind = "send-message" /\ requests[s].pc = "sending")
             => Reached(requests[s].elapsed, requests[s].dur)
    /\ out.status = 200 => Reached(out.total_time, out.typing_duration)

\* C7: with no session event in between, a call of scheduleTypingClear for a
\* conversation cancels every timer still pending for it (so that only the
\* new timer fires a clear).
C7_SecondCallCancelsFirst ==
    [][\A s \in Slots :
          (SendTypingSignalled(s, TRUE) /\ willAutoClear(requests[s].dur))
             => \A t \in PendingFor(requests[s].chat) : t \notin typingTimers']_vars

\* C8: with no authenticated event, the handler of the k-th challenge emits the
\* escalation diagnostic exactly when k >= 5, and emitting it neither ends the
\* process nor schedules a reset.
C8_EscalationAtFifth ==
    [][\A i \in DOMAIN qrHandlers :
          (\E ok \in BOOLEAN : QrDone(i, ok))
             => /\ out'.escalation <=> (qrHandlers[i] >= 5)
                /\ UNCHANGED <<resetTimers, running, sessionExists>>]_vars

\* C9: an auth_failure at 5 or more attempts schedules a reset with a delay of
\* 5000 ms, and the reset, when it fires, deletes the session data and then
\* ends the process, which eventually happens; an auth_failure below 5
\* attempts schedules nothing and leaves the process running, unauthenticated
\* and without a stored challenge.
C9_Safety ==
    [][/\ (AuthFailure /\ authenticationAttempts >= 5)
             => (resetTimers' = Append(resetTimers, 5000) /\ running' /\ sessionExists')
       /\ (AuthFailure /\ authenticationAttempts < 5)
             => (resetTimers' = resetTimers /\ running' /\ sessionExists'
                 /\ ~isAuthenticated' /\ currentQRCode' = NULL)
       /\ ResetFire
             => (out'.calls = <<"rmSync", "exit">> /\ ~sessionExists' /\ ~running')]_vars

C9_ResetAtThreshold == C9_Safety /\ ((resetTimers # <<>>) ~> ~running)

C9_Witness == ~running /\ ~sessionExists /\ out.calls = <<"rmSync", "exit">>

\* C10: the session data is deleted or the process ended only after an
\* auth_failure was handled with 5 or more attempts counted.
C10_OnlyFatalAfterExhaustion == (~running \/ ~sessionExists) => authExhausted

InitializeCalled == \E i \in DOMAIN out.calls : out.calls[i] = "initialize"

\* C12: handling a disconnected event sets ready and authenticated to false and
\* schedules a reconnect 10000 ms later; a scheduled reconnect is given up only
\* by its timeout firing, with its delay used up, and calling
\* client.initialize(); and that eventually happens unless the process ends.
C12_Safety ==
    [][/\ Disconnected
             => /\ ~clientReady' /\ ~isAuthenticated'
                /\ reconnectTimers' = Append(reconnectTimers, 10000)
       /\ Len(reconnectTimers') < Len(reconnectTimers)
             => /\ Head(reconnectTimers) = 0
                /\ InitializeCalled'
       /\ \A i \in DOMAIN reconnectTimers :
             (i \in DOMAIN reconnectTimers' /\ Len(reconnectTimers') >= Len(reconnectTimers))
                => reconnectTimers'[i] >= reconnectTimers[i] - Quantum]_vars

C12_DisconnectReconnects ==
    C12_Safety /\ ((reconnectTimers # <<>>) ~> (InitializeCalled \/ ~running))

C12_Witness ==
    /\ running /\ ~clientReady /\ ~isAuthenticated
    /\ reconnectTimers = <<>> /\ InitializeCalled
    /\ authenticationAttempts > 0

\* C13: in every reachable state a stored challenge (currentQRCode non-null)
\* does not coexist with isAuthenticated = TRUE.
C13_ChallengeOnlyUnauthenticated == currentQRCode # NULL => ~isAuthenticated

\* C14: handling an authenticated event, in any state and for any count of
\* challenges, results in isAuthenticated = TRUE, authenticationAttempts = 0
\* and currentQRCode = null.
C14_AuthenticatedResets ==
    [][Authenticated => /\ isAuthenticated'
                        /\ authenticationAttempts' = 0
                        /\ currentQRCode' = NULL]_vars

\* The authenticated event has been handled after a challenge whose handler is
\* still writing the image.
C14_Witness ==
    /\ isAuthenticated /\ authenticationAttempts = 0 /\ currentQRCode = NULL
    /\ qrHandlers # <<>> /\ Head(qrHandlers) >= 2

\* C15: handling a ready event, from any prior state, results in
\* clientReady = TRUE and isAuthenticated = TRUE.
C15_ReadySetsBoth == [][Ready => clientReady' /\ isAuthenticated']_vars

\* A call of calculateTypingDuration has returned.
Returned == call.duration # NotReturned

\* C16: for every text length and every message_type, complexity and urgency,
\* absent and unrecognised values included, calculateTypingDuration returns a
\* value d with 800 <= d <= 6000.
C16_DurationClamped ==
    Returned => 800 * Centi <= call.duration /\ call.duration <= 6000 * Centi

\* A call whose unclamped value (420) is below the range, with a complexity the
\* function has no case for.
C16_Witness ==
    /\ Returned
    /\ call.message_type = "quick_response" /\ call.urgency = "urgent"
    /\ call.complexity = Unrecognised
    /\ call.duration = 800 * Centi

\* C17: with message_type = "error" calculateTypingDuration returns exactly 800,
\* for every text length, complexity and urgency.
C17_ErrorIsFixed ==
    (Returned /\ call.message_type = "error") => call.duration = 800 * Centi

\* The context has no field, or fields with the default values.
EmptyContext ==
    /\ call.message_type \in {Absent, "normal"}
    /\ call.complexity \in {Absent, "low"}
    /\ call.urgency \in {Absent, "normal"}

\* C18: with an empty context calculateTypingDuration(text) is
\* min(6000, max(1000, 40 * length(text))); the empty text gives 1000.
C18_EmptyContextDuration ==
    (Returned /\ EmptyContext)
        => /\ call.duration = Min(6000, Max(1000, 40 * call.text_length)) * Centi
           /\ call.text_length = 0 => call.duration = 1000 * Centi

C18_Witness ==
    /\ Returned
    /\ call.text_length = 0
    /\ call.message_type = Absent /\ call.complexity = Absent /\ call.urgency = Absent
    /\ call.duration = 1000 * Centi

\* The factors of C19, in tenths.
complexityTenths(complexity) == CASE complexity = "low" -> 10 [] complexity = "medium" -> 12 [] complexity = "high" -> 15
urgencyTenths(urgency) == CASE urgency = "low" -> 13 [] urgency = "normal" -> 10 [] urgency = "high" -> 7

\* C19: with v the duration after the message_type adjustment,
\* calculateTypingDuration returns clamp(v * c * u, 800, 6000), where c is
\* 1.0 / 1.2 / 1.5 for complexity low / medium / high and u is 1.3 / 1.0 / 0.7
\* for urgency low / normal / high.
C19_Multipliers ==
    (Returned /\ call.complexity \in {"low", "medium", "high"}
              /\ call.urgency \in {"low", "normal", "high"})
        => LET v == afterMessageType(baseDuration(call.text_length),
                                     defaulted(call.message_type, "normal"))
               scaled == (v * complexityTenths(call.complexity)
                            * urgencyTenths(call.urgency)) \div 100
           IN  call.duration = Min(6000 * Centi, Max(800 * Centi, scaled))

\* 2000 ms scaled by 1.2 and by 1.3, inside the range.
C19_Witness ==
    /\ Returned
    /\ call.text_length = 50 /\ call.message_type = "normal"
    /\ call.complexity = "medium" /\ call.urgency = "low"
    /\ call.duration = 3120 * Centi

\* C20: every delay for which a send operation suspends before it issues the
\* underlying send (the typing sleep, then the message_delay sleep) lies within
\* 800..6000 ms, whatever the request gives as typing_duration and
\* message_delay.
C20_SuspensionsClamped ==
    \A s \in Slots :
        requests[s].kind = "send-message"
           => /\ requests[s].pc = "typing"
                    => 800 <= requests[s].dur /\ requests[s].dur <= 6000
              /\ requests[s].pc = "delay"
                    => 800 <= requests[s].delay /\ requests[s].delay <= 6000

\* C21: every API request that is being handled eventually receives its
\* response (its handler ends), also when a disconnected event or a superseding
\* request occurs during its presence delay.
C21_EveryRequestAnswered ==
    \A s \in Slots : (requests[s].kind # "none") ~> (requests[s].kind = "none")

\* C22: a send-typing request with a duration of 0 or less, once the presence
\* is signalled, schedules no timer, answers that it will not auto-clear, and
\* leaves no auto-clear timer pending for the conversation: the scheduler will
\* not clear the presence the request showed.
C22_NoAutoClear ==
    [][\A s \in Slots :
          (SendTypingSignalled(s, TRUE) /\ ~willAutoClear(requests[s].dur))
             => /\ out'.status = 200 /\ ~out'.will_auto_clear
                /\ typingTimers' = typingTimers
                /\ \A t \in typingTimers' : ~(~t.fired /\ t.chatId = requests[s].chat)]_vars

\* C23: when signalling the presence fails (getChatById or the typing signal
\* throws) the request is answered with a failure, no timer is scheduled, the
\* registry and the pending timers are left exactly as they were, and the
\* handler ends without issuing the send.
C23_SignalFailureLeavesRegistry ==
    [][\A s \in Slots :
          (\/ SendMessageSignalled(s, FALSE)
           \/ SendTypingSignalled(s, FALSE)
           \/ SendDocumentSignalled(s, FALSE))
             => /\ out'.status = 500
                /\ typingTimers' = typingTimers
                /\ activeTypingStates' = activeTypingStates
                /\ requests'[s] = NoRequest
                /\ ~SendIssued']_vars

\* A request has just failed while the timer of an earlier request is pending
\* for the conversation, with its whole delay left.
C23_Witness ==
    /\ out.status = 500 /\ Idle
    /\ activeTypingStates["c1"] # NoTimer
    /\ \E t \in PendingFor("c1") :
          t.id = activeTypingStates["c1"] /\ t.rem = RoundUp(DEFAULT_TYPING_STATE_DURATION)

\* C24: when the clear fails in a timer's callback the failure is only logged:
\* the session flags, the challenge and its count are unchanged, the process
\* keeps running, no other timer and no other conversation's registry entry is
\* touched, and no request is answered or changed by it.
C24_ClearFailureSwallowed ==
    [][\A t \in typingTimers :
          TypingClearDone(t, FALSE)
             => /\ sessionVars' = sessionVars
                /\ running'
                /\ typingTimers' = typingTimers \ {t}
                /\ \A c \in Chats \ {t.chatId} : activeTypingStates'[c] = activeTypingStates[c]
                /\ requests' = requests
                /\ out'.status = 0 /\ out'.calls = <<>>]_vars

\* The clear of one conversation has failed (its entry is left behind with no
\* timer) while the timer of the other is pending.
C24_Witness ==
    /\ running /\ clientReady
    /\ activeTypingStates["c1"] # NoTimer
    /\ \A t \in typingTimers : t.id # activeTypingStates["c1"]
    /\ \E t \in PendingFor("c2") : t.id = activeTypingStates["c2"]

\* C25: every send operation that shows a presence before it sends
\* (send-message, send-document) registers, once the presence is signalled, an
\* auto-clear timer for the conversation with the presence scheduler.
C25_SendRegistersClear ==
    [][\A s \in Slots :
          (SendMessageSignalled(s, TRUE) \/ SendDocumentSignalled(s, TRUE))
             => \E t \in typingTimers' :
                   /\ ~t.fired /\ t.chatId = requests[s].chat
                   /\ activeTypingStates'[requests[s].chat] = t.id]_vars

\* C26: a request whose x-api-key header is not the configured key is answered
\* 401, whatever the readiness and its fields, and has no effect: nothing is
\* called on the connection, no handler is started, and the session state, the
\* registry, the timers and the stored files are unchanged.
C26_UnauthorizedHasNoEffect ==
    [][(\/ RequestWith(FALSE, Chats)
        \/ \E toOk \in BOOLEAN, file \in UploadFiles : UploadAndSend(FALSE, toOk, file))
          => /\ out'.status = 401 /\ out'.calls = <<>>
             /\ UNCHANGED <<sessionVars, presenceVars, requests, uploads>>]_vars

C28_CountIsPendingTimers ==
    active_typing_states = Cardinality({c \in Chats : PendingFor(c) # {}})

\* C29: after a ready event is handled the registry is empty and no auto-clear
\* timer is pending: the timers scheduled before the event are cancelled.
C29_ReadyCancelsTimers ==
    [][Ready => /\ \A c \in Chats : activeTypingStates'[c] = NoTimer
                /\ \A t \in typingTimers' : t.fired]_vars

\* C30: when the callback of a conversation's timer ends, the clear having
\* succeeded or failed, the registry holds no entry for the conversation,
\* unless a presence request made since has stored a newer timer there.
C30_FiredTimerLeavesNoEntry ==
    [][\A t \in typingTimers, ok \in BOOLEAN :
          (TypingClearDone(t, ok) /\ activeTypingStates[t.chatId] = t.id)
             => activeTypingStates'[t.chatId] = NoTimer]_vars

\* C31: a send-typing request that signals the presence for a conversation
\* cancels the auto-clear timer pending for it, whatever its own duration: no
\* timer that was pending before the request is pending after it.
C31_RequestCancelsPending ==
    [][\A s \in Slots :
          SendTypingSignalled(s, TRUE)
             => \A t \in typingTimers :
                   (~t.fired /\ t.chatId = requests[s].chat) => t \notin typingTimers']_vars

\* C32: when a send-message request with typing starts for a conversation
\* before the typing delay of an earlier one has ended, the earlier request's
\* auto-clear timer is superseded: it does not fire once the later request has
\* started.
C32_OverlapSupersedes ==
    [][\A t \in typingTimers :
          TypingTimerFire(t)
             => ~\E s \in Slots : /\ requests[s].kind = "send-message"
                                  /\ requests[s].chat = t.chatId
                                  /\ requests[s].pc = "signal"]_vars

\* The state is one a ready event leaves: the handler writes clientReady and
\* the registry and nothing else of the session or the scheduler.
JustReady == clientReady /\ \A c \in Chats : activeTypingStates[c] = NoTimer

\* C33: a ready event handled in the state an earlier ready event left changes
\* nothing: clientReady, isAuthenticated, currentQRCode, authenticationAttempts,
\* the registry and the timers are the same after two events as after one.
C33_ReadyIdempotent ==
    [][(JustReady /\ Ready) => /\ JustReady'
                               /\ UNCHANGED <<sessionVars, presenceVars>>]_vars

\* A ready event has just been handled with a timer pending and the session
\* authenticated.
C33_Witness ==
    /\ JustReady /\ isAuthenticated /\ PendingTimers # {}
    /\ out = Out(0, <<>>) /\ Idle

\* C34: when the callback of a fired timer ends after a newer presence request
\* for the conversation has stored its own timer in the registry, the newer
\* entry stays: the newer timer can still be cancelled by a later request and
\* by a disconnect.
C34_OlderClearKeepsNewerEntry ==
    [][\A t \in typingTimers, ok \in BOOLEAN :
          (/\ TypingClearDone(t, ok)
           /\ activeTypingStates[t.chatId] # NoTimer
           /\ activeTypingStates[t.chatId] # t.id)
             => activeTypingStates'[t.chatId] = activeTypingStates[t.chatId]]_vars

\* C35: in every reachable state where clientReady is false the registry is
\* empty and no auto-clear timer is pending.
C35_NotReadyNoPresence ==
    ~clientReady => /\ \A c \in Chats : activeTypingStates[c] = NoTimer
                    /\ PendingTimers = {}

\* C36: a reset scheduled before a successful authentication does not fire:
\* when a reset timeout deletes the session data and ends the process, no
\* authenticated event has been handled since the auth_failure that scheduled
\* it (the count of challenges, which only that event lowers, is still at the
\* limit).
C36_NoResetAfterAuthentication ==
    [][ResetFire => authenticationAttempts >= MAX_AUTH_ATTEMPTS]_vars

\* Repeated disconnected events (index.js:222-238) with their reconnect
\* timeouts (index.js:235-237), between the other session events.
NextDisconnects ==
    \/ \E qr \in QRCodes : Qr(qr)
    \/ \E i \in 1..MaxQrHandlers, ok \in BOOLEAN : QrDone(i, ok)
    \/ Authenticated
    \/ Ready
    \/ DisconnectedWithin(MaxOverlappingReconnects)
    \/ \E ok \in BOOLEAN : ReconnectFire(ok)
    \/ Tick

SpecDisconnects == Init /\ [][NextDisconnects]_vars

\* C37: at most one reconnect attempt is pending at any time.
C37_OneReconnectPending == Len(reconnectTimers) <= 1

\* No qr handler is suspended and no reset or reconnect timeout is pending.
Settled == Len(qrHandlers) = 0 /\ Len(resetTimers) = 0 /\ Len(reconnectTimers) = 0

\* Every session event and every timer, with API requests handled between them:
\* send-message and send-typing requests, accepted or rejected, one at a time,
\* and the timeout each accepted one schedules.  A qr, auth_failure or
\* disconnected event waits for the handlers and timeouts of the earlier ones.
NextAttempts ==
    \/ Settled /\ \E qr \in QRCodes : Qr(qr)
    \/ \E i \in 1..MaxQrHandlers, ok \in BOOLEAN : QrDone(i, ok)
    \/ Authenticated
    \/ Settled /\ AuthFailure
    \/ Ready
    \/ Settled /\ Disconnected
    \/ HostTimer
    \/ PresenceTimer
    \/ Idle /\ \E keyOk \in BOOLEAN :
                  SendTyping(keyOk, TRUE, "c1", TRUE, Quantum, "typing")
    \/ \E s \in Slots, ok \in BOOLEAN : SendTypingSignalled(s, ok)
    \/ Idle /\ SendMessage(TRUE, TRUE, "c1", 10, Quantum, TRUE, 0, "normal", "normal")
    \/ \E s \in Slots : SendMessageSignalled(s, TRUE)
    \/ \E s \in Slots : SendMessageSlept(s)
    \/ \E s \in Slots, ok \in BOOLEAN : SendMessageSent(s, ok)
    \/ Tick

SpecAttempts == Init /\ [][NextAttempts]_vars

\* A step of the qr handler's first part (index.js:131-137).
QrStep == \E qr \in QRCodes : Qr(qr)

\* C38: authenticationAttempts changes only by +1 on a qr event and by reset to
\* 0 on an authenticated event; ready, auth_failure, disconnected, the timer
\* expiries and the API requests leave it unchanged, and it is never negative.
C38_AttemptsFrame == [][(QrStep => authenticationAttempts' = authenticationAttempts + 1) /\ (Authenticated => authenticationAttempts' = 0) /\ ((~QrStep /\ ~Authenticated) => authenticationAttempts' = authenticationAttempts) /\ authenticationAttempts' >= 0]_vars

\* Two challenges were counted, then the session was lost: the count is kept
\* while the reconnect is pending.
C38_Witness == authenticationAttempts = 2 /\ Len(reconnectTimers) = 1 /\ ~isAuthenticated /\ ~clientReady /\ Len(qrHandlers) = 0

\* send-message requests (index.js:311-389) whose bodies give a short or a long
\* text, a typing_duration or none, and a message_type and urgency of their own.
ReportTextLengths == {10, 150}
ReportMessageTypes == {"normal", "search"}
ReportUrgencies == {"normal", "high"}

NextReport ==
    \/ Idle /\ \E len \in ReportTextLengths, typing_duration \in {0, Quantum},
                    enable_typing \in BOOLEAN, message_type \in ReportMessageTypes,
                    urgency \in ReportUrgencies :
                  SendMessage(TRUE, TRUE, "c1", len, typing_duration, enable_typing, 0,
                              message_type, urgency)
    \/ \E s \in Slots, ok \in BOOLEAN : SendMessageSignalled(s, ok)
    \/ \E s \in Slots : SendMessageSlept(s)
    \/ \E s \in Slots, ok \in BOOLEAN : SendMessageSent(s, ok)
    \/ PresenceTimer
    \/ Tick

SpecReport == InitReady /\ [][NextReport]_vars

\* C39: the typing_duration a successful send-message response reports is the
\* presence duration the request used.
C39_ReportedIsUsed == [][\A s \in Slots : SendMessageSent(s, TRUE) => out'.typing_duration = requests[s].dur]_vars

\* The duration of the returned call's context for a text of len characters.
durationAt(len) == calculateTypingDurationCenti(len, defaulted(call.message_type, "normal"), defaulted(call.complexity, "low"), defaulted(call.urgency, "normal"))

\* C40: for a fixed message_type, complexity and urgency, calculateTypingDuration
\* is non-decreasing in the text length: no shorter text gets a longer duration
\* than the one the call returned.
C40_MonotoneInLength ==
    Returned => \A len \in 0..call.text_length : durationAt(len) <= call.duration

\* A search call with a 100-character text returned more than the same context
\* gives a 10-character text.
C40_Witness ==
    /\ Returned
    /\ call.text_length = 100
    /\ call.message_type = "search"
    /\ durationAt(10) < call.duration

====
